---- MODULE Spec2Model ----
(***************************************************************************)
(* Model of app.py: the FastAPI application that downloads a close-price   *)
(* table, slices it at 2022-07-05, drops the VFSVX column, drops the rows  *)
(* with a missing value and serves the result as JSON.                     *)
(*                                                                         *)
(* Dates are proleptic Gregorian ordinals (datetime.date.toordinal), so    *)
(* weekday(d) = (d - 1) % 7 with Monday = 0.  A DataFrame is a record      *)
(* [columns, index, values] with values row-major: values[i][j] is the     *)
(* cell of row index[i] and column columns[j].  A cell is NaN, Inf or      *)
(* Num(v).  Synthetic prices are fixed-point integers in units of 1e-4.    *)
(***************************************************************************)
EXTENDS Integers, Sequences, FiniteSets, TLC

\* ---------------------------------------------------------------- bounds
\* Number of requested identifiers, from VFSVX onward, that the upstream
\* source may return a column for.
MaxCols == 2
\* Number of consecutive calendar days, from the day before the cutoff, that
\* an upstream table may carry a row for.
MaxDates == 3
\* Number of calendar days, from 2025-01-01, covered by the synthetic index.
MaxDummySpan == 6
\* Number of states of the global pseudo-random generator.
RngStates == 5
\* The count of fallback runs saturates at this value.
MaxCounted == 2

\* ------------------------------------------------------ program constants
SEED == 42
Drift == 2
Vol == 100
StartPrice == 100
Cutoff == 738341
DummyStart == 739252
DummyEnd == 739523
StatusOK == 200
StatusError == 500

investment_options ==
  << "DODGX", "FLCSX", "FXAIX", "VFIAX", "VFINX", "TRBCX", "PRGFX",
     "VTTVX", "VTTSX", "VTIVX", "VFFVX", "VSVNX", "TRRKX", "FFTHX",
     "FTBFX", "VBTLX", "VBMFX", "VIPIX", "MWTSX", "PTTRX",
     "PRWCX", "VWELX", "FCNTX", "DODFX",
     "VGTSX", "VTIAX", "FSPSX", "VFWAX", "TRIGX",
     "VFSVX", "VFSAX", "FISMX", "VINEX",
     "VEMAX", "FPADX" >>

market_indexes ==
  << "^VIX", "^MOVE", "^GSPC", "^TNX", "^IRX", "TIP" >>

\* investment_options + market_indexes, the list handed to yf.download and
\* iterated by the fallback.
Requested == investment_options \o market_indexes

DroppedColumn == "VFSVX"

\* ------------------------------------------------------------ cell values
NaN == [tag |-> "nan", v |-> 0]
Inf == [tag |-> "inf", v |-> 0]
Num(x) == [tag |-> "num", v |-> x]

IsNA(c) == c.tag = "nan"
IsFinite(c) == c.tag = "num"

\* ------------------------------------------------------------- sequences
Range(s) == { s[i] : i \in 1..Len(s) }

Min(a, b) == IF a <= b THEN a ELSE b

\* Position of label c in the sequence s (0 when absent).
IndexOf(s, c) ==
  IF c \in Range(s) THEN CHOOSE i \in 1..Len(s) : s[i] = c /\ \A k \in 1..(i - 1) : s[k] # c
  ELSE 0

\* The sequence s without its element at position j.
RemoveAt(s, j) == [ i \in 1..(Len(s) - 1) |-> IF i < j THEN s[i] ELSE s[i + 1] ]

\* The elements of the finite integer set S in ascending order.
RECURSIVE SortedSeq(_)
SortedSeq(S) ==
  IF S = {} THEN << >>
  ELSE LET m == CHOOSE x \in S : \A y \in S : x <= y
       IN << m >> \o SortedSeq(S \ {m})

\* ------------------------------------------------------------- DataFrame
EmptyDF == [columns |-> << >>, index |-> << >>, values |-> << >>]

NRows(df) == Len(df.index)

RowHasNA(row) == \E j \in 1..Len(row) : IsNA(row[j])

\* Index.searchsorted(key, side="left") on an ascending index: the number of
\* labels strictly below key.
SearchSortedLeft(index, key) == Cardinality({ i \in 1..Len(index) : index[i] < key })

\* A slice that starts after the key: the rows whose label is above key.
LocAfter(df, key) ==
  LET n == NRows(df)
      lo == Cardinality({ i \in 1..n : df.index[i] <= key }) + 1
  IN [columns |-> df.columns,
      index   |-> SubSeq(df.index, lo, n),
      values  |-> SubSeq(df.values, lo, n)]

\* df.loc[key:] on an ascending DatetimeIndex: the rows from the first
\* position whose label is not below key, to the end.
LocFrom(df, key) ==
  LET n == NRows(df)
      lo == SearchSortedLeft(df.index, key) + 1
  IN [columns |-> df.columns,
      index   |-> SubSeq(df.index, lo, n),
      values  |-> SubSeq(df.values, lo, n)]

\* df.drop(columns=[label], errors="ignore"): an absent label is skipped.
DropColumnIgnore(df, label) ==
  LET j == IndexOf(df.columns, label)
  IN IF j = 0
     THEN [exc |-> "none", df |-> df]
     ELSE [exc |-> "none",
           df  |-> [columns |-> RemoveAt(df.columns, j),
                    index   |-> df.index,
                    values  |-> [ i \in 1..NRows(df) |-> RemoveAt(df.values[i], j) ]]]

\* df.drop(columns=[label]): KeyError when the label is no column.
DropColumn(df, label) ==
  LET j == IndexOf(df.columns, label)
  IN IF j = 0
     THEN [exc |-> "KeyError", df |-> EmptyDF]
     ELSE [exc |-> "none",
           df  |-> [columns |-> RemoveAt(df.columns, j),
                    index   |-> df.index,
                    values  |-> [ i \in 1..NRows(df) |-> RemoveAt(df.values[i], j) ]]]

\* df.dropna(): axis=0, how="any"; walks the rows in order and keeps the
\* complete ones.
RECURSIVE DropnaFrom(_, _)
DropnaFrom(df, i) ==
  IF i > NRows(df) THEN [index |-> << >>, values |-> << >>]
  ELSE LET rest == DropnaFrom(df, i + 1)
       IN IF RowHasNA(df.values[i]) THEN rest
          ELSE [index  |-> << df.index[i] >> \o rest.index,
                values |-> << df.values[i] >> \o rest.values]

Dropna(df) ==
  LET kept == DropnaFrom(df, 1)
  IN [columns |-> df.columns, index |-> kept.index, values |-> kept.values]

\* df.to_dict(orient="records"): one mapping column -> value per row, in row
\* order; the index is not part of the records.
ToDictRecords(df) ==
  [ i \in 1..NRows(df) |->
      [ c \in Range(df.columns) |-> df.values[i][IndexOf(df.columns, c)] ] ]

\* ------------------------------------------------- numpy global generator
\* np.random.seed(s): the generator state becomes a function of s alone.
Seed(s) == s % RngStates

\* The generator state after k draws from state g.
Advance(g, k) == (g + k) % RngStates

\* np.random.normal(loc, scale) in state g: loc + scale * z, with the
\* standard variate z a function of the state (here -1, 0 or 1).
Normal(g, loc, scale) == loc + scale * ((g % 3) - 1)

\* np.random.normal(loc, scale, n): n consecutive draws and the state left.
NormalN(g, loc, scale, n) ==
  [vals |-> [ i \in 1..n |-> Normal(Advance(g, i - 1), loc, scale) ],
   rng  |-> Advance(g, n)]

\* The sum of the first i elements of s.
RECURSIVE PrefixSum(_, _)
PrefixSum(s, i) == IF i = 0 THEN 0 ELSE PrefixSum(s, i - 1) + s[i]

\* np.cumsum
CumSum(s) == [ i \in 1..Len(s) |-> PrefixSum(s, i) ]

\* np.exp on a log-return in units of 1e-4, as a fixed-point number in units
\* of 1e-4 (second-order expansion): always finite and positive.
Exp(x) == 10000 + x + ((x * x) \div 20000)

\* pd.date_range(start="2025-01-01", end="2025-09-29", freq="B"): the
\* business days of the range, ascending.
DummyDates ==
  SortedSeq({ d \in DummyStart..Min(DummyEnd, DummyStart + MaxDummySpan - 1) : (d - 1) % 7 < 5 })

\* A fallback that generates a series for the market indexes only.
DummyTickersIndexesOnly == market_indexes

\* The identifiers the fallback generates a series for.
DummyTickers == Requested

\* The dict comprehension of the fallback: one series per ticker, in list
\* order, each consuming len(dates) draws of the global generator.
DummySeries(g, tickers, n) ==
  [series |-> [ j \in 1..Len(tickers) |->
                  LET draw == NormalN(Advance(g, (j - 1) * n), Drift, Vol, n)
                      walk == CumSum(draw.vals)
                  IN [ i \in 1..n |-> Num(StartPrice * Exp(walk[i])) ] ],
   rng    |-> Advance(g, Len(tickers) * n)]

\* The state np.random is in when the fallback starts drawing, had the
\* fallback not reseeded it (the state the process happens to be in).
SeedFallbackMissing(g) == g

\* np.random.seed(42) at the start of the fallback.
SeedFallback(g) == Seed(SEED)

\* The except branch: reseed, build the business-day index, generate the
\* frame.  Returns the frame and the generator state left behind.
DummyData(g) ==
  LET n   == Len(DummyDates)
      gen == DummySeries(SeedFallback(g), DummyTickers, n)
  IN [df  |-> [columns |-> DummyTickers,
               index   |-> DummyDates,
               values  |-> [ i \in 1..n |-> [ j \in 1..Len(DummyTickers) |-> gen.series[j][i] ] ]],
      rng |-> gen.rng]

\* ------------------------------------------------------- upstream source
\* The outcomes of yf.download(...)["Close"]: the call raises, the call
\* returns a frame without a "Close" level (the subscript raises KeyError),
\* or a close-price frame.
ColPool ==
  LET first == IndexOf(Requested, DroppedColumn)
  IN { Requested[i] : i \in first..Min(Len(Requested), first + MaxCols - 1) }

DatePool == (Cutoff - 1)..(Cutoff + MaxDates - 2)

\* A finite close price, distinct for every (date, identifier).
PriceOf(d, c) == 100 * IndexOf(Requested, c) + (d - Cutoff) + 1

\* The close-price frame with the given columns and dates, in which the
\* cells of nan are missing and the cell inf (if any) is infinite.
CloseFrame(cols, dates, nan, inf) ==
  LET columns == SelectSeq(Requested, LAMBDA c : c \in cols)
      index   == SortedSeq(dates)
  IN [columns |-> columns,
      index   |-> index,
      values  |-> [ i \in 1..Len(index) |->
                     [ j \in 1..Len(columns) |->
                         LET cell == << index[i], columns[j] >>
                         IN IF cell \in inf THEN Inf
                            ELSE IF cell \in nan THEN NaN
                            ELSE Num(PriceOf(index[i], columns[j])) ] ]]

\* The frames over the given columns and dates: any set of missing cells;
\* or one infinite cell and at most one missing cell.
TablesOver(cols, dates) ==
  LET cells == dates \X cols
  IN { CloseFrame(cols, dates, nan, {}) : nan \in SUBSET cells }
     \cup { CloseFrame(cols, dates, {}, { x }) : x \in cells }
     \cup { CloseFrame(cols, dates, { q[2] }, { q[1] }) :
              q \in { p \in cells \X cells : p[1] # p[2] } }

UpstreamTables ==
  UNION { UNION { TablesOver(cols, dates) : dates \in SUBSET DatePool } :
          cols \in SUBSET ColPool }

Raises == [kind |-> "raise", close |-> EmptyDF]
NoClose == [kind |-> "noclose", close |-> EmptyDF]
Returns(df) == [kind |-> "ok", close |-> df]

Upstream == { Raises, NoClose } \cup { Returns(df) : df \in UpstreamTables }

\* Single-row (or empty) close-price frames dated at the cutoff: the frames
\* of the requests that are compared with one another.
PairUpstream ==
  { Raises, NoClose } \cup
  { Returns(df) : df \in UNION { UNION { TablesOver(cols, dates) : dates \in SUBSET { Cutoff } } :
                                  cols \in SUBSET ColPool } }

\* ------------------------------------------------------ get_cleaned_data
\* The try block around yf.download(...)["Close"], had the subscript been
\* written after the try statement: only the call's own error is caught.
FetchSubscriptOutsideTry(up, g) ==
  IF up.kind = "ok"
  THEN [exc |-> "none", data |-> up.close, rng |-> g, upstream_calls |-> 1, fallback_runs |-> 0]
  ELSE IF up.kind = "noclose"
  THEN [exc |-> "KeyError", data |-> EmptyDF, rng |-> g, upstream_calls |-> 1, fallback_runs |-> 0]
  ELSE LET dummy == DummyData(g)
       IN [exc |-> "none", data |-> dummy.df, rng |-> dummy.rng,
           upstream_calls |-> 1, fallback_runs |-> 1]

\* Step 1 and 2 of get_cleaned_data: one upstream call; any Exception of the
\* call or of the ["Close"] subscript runs the fallback once.
Fetch(up, g) ==
  IF up.kind = "ok"
  THEN [exc |-> "none", data |-> up.close, rng |-> g, upstream_calls |-> 1, fallback_runs |-> 0]
  ELSE LET dummy == DummyData(g)
       IN [exc |-> "none", data |-> dummy.df, rng |-> dummy.rng,
           upstream_calls |-> 1, fallback_runs |-> 1]

\* most_recent.dropna().drop(columns=['VFSVX']): the two calls of step 4 in
\* the other order.
CleanFrameDropnaFirst(most_recent) ==
  LET dropped == DropColumn(Dropna(most_recent), DroppedColumn)
  IN IF dropped.exc # "none" THEN [exc |-> dropped.exc, df |-> EmptyDF]
     ELSE [exc |-> "none", df |-> dropped.df]

\* most_recent.dropna(): step 4 without the column removal.
CleanFrameNoDrop(most_recent) == [exc |-> "none", df |-> Dropna(most_recent)]

\* Step 4: most_recent.drop(columns=['VFSVX']).dropna()
CleanFrame(most_recent) ==
  LET dropped == DropColumn(most_recent, DroppedColumn)
  IN IF dropped.exc # "none" THEN [exc |-> dropped.exc, df |-> EmptyDF]
     ELSE [exc |-> "none", df |-> Dropna(dropped.df)]

\* get_cleaned_data() for the upstream outcome up, entered with the global
\* generator in state g.  exc is the exception it raises ("none": returns
\* clean_df); the locals are kept for inspection.
get_cleaned_data(up, g) ==
  LET fetched == Fetch(up, g)
  IN IF fetched.exc # "none"
     THEN [exc |-> fetched.exc, fetched |-> fetched, data |-> EmptyDF,
           most_recent |-> EmptyDF, clean_df |-> EmptyDF, rng |-> fetched.rng]
     ELSE LET most_recent == LocFrom(fetched.data, Cutoff)
              cleaned     == CleanFrame(most_recent)
          IN [exc |-> cleaned.exc, fetched |-> fetched, data |-> fetched.data,
              most_recent |-> most_recent, clean_df |-> cleaned.df, rng |-> fetched.rng]

\* ------------------------------------------------------------- endpoint
\* JSONResponse(content=...) renders with json.dumps(allow_nan=False): a
\* non-finite float in the content raises ValueError.
JSONRenders(records) ==
  \A i \in 1..Len(records) : \A c \in DOMAIN records[i] : IsFinite(records[i][c])

\* len(clean_df.columns)
RowCountColumns(clean_df) == Len(clean_df.columns)

\* len(clean_df)
RowCount(clean_df) == NRows(clean_df)

\* The success content of the endpoint.
SuccessContent(clean_df) ==
  [status    |-> "success",
   message   |-> "401k portfolio data fetched and cleaned.",
   data      |-> ToDictRecords(clean_df),
   row_count |-> RowCount(clean_df)]

\* An exception leaving the endpoint function, had it no except clause.
Propagate(exc) ==
  [raised |-> exc, status_code |-> 0, content |-> [status |-> "none"]]

\* except Exception as e: the 500 error envelope.
Catch(exc) ==
  [raised |-> "none", status_code |-> StatusError,
   content |-> [status |-> "error", message |-> << "An error occurred: ", exc >>]]

\* The result of api_get_401k_data() given what get_cleaned_data() did.
Respond(cleaned) ==
  IF cleaned.exc # "none" THEN Catch(cleaned.exc)
  ELSE LET content == SuccessContent(cleaned.clean_df)
       IN IF ~JSONRenders(content.data) THEN Catch("ValueError")
          ELSE [raised |-> "none", status_code |-> StatusOK, content |-> content]

\* ------------------------------------------------------------------ state
VARIABLES
  phase,       \* "idle": no request is running; "done": a response is ready
  rng,         \* state of numpy's global generator (module state of np.random)
  cur,         \* the request just handled: its upstream outcome, locals, response
  fallbacks,   \* history: the frames the fallback has generated so far
  fallback_count, \* history: how many times the fallback has run (saturating)
  remembered   \* history: an earlier request (upstream outcome, response)

vars == << phase, rng, cur, fallbacks, fallback_count, remembered >>

NoResponse == [raised |-> "none", status_code |-> 0, content |-> [status |-> "none"]]

NoRequest ==
  [route |-> "none", up |-> Raises, exc |-> "none",
   fetched |-> [exc |-> "none", data |-> EmptyDF, rng |-> 0, upstream_calls |-> 0, fallback_runs |-> 0],
   data |-> EmptyDF, most_recent |-> EmptyDF, clean_df |-> EmptyDF,
   response |-> NoResponse]

\* The process starts with the generator seeded from the operating system:
\* any state.
Init ==
  /\ phase = "idle"
  /\ rng \in 0..(RngStates - 1)
  /\ cur = NoRequest
  /\ fallbacks = {}
  /\ fallback_count = 0
  /\ remembered = {}

\* GET /get-401k-data with upstream outcome up.  The endpoint is a coroutine
\* without an await: it runs from start to finish on the event loop.
Handle(up) ==
  /\ LET cleaned == get_cleaned_data(up, rng)
     IN /\ rng' = cleaned.rng
        /\ cur' = [route |-> "/get-401k-data", up |-> up, exc |-> cleaned.exc,
                   fetched |-> cleaned.fetched, data |-> cleaned.data,
                   most_recent |-> cleaned.most_recent, clean_df |-> cleaned.clean_df,
                   response |-> Respond(cleaned)]
        /\ fallbacks' = IF cleaned.fetched.fallback_runs > 0
                        THEN fallbacks \cup { cleaned.fetched.data }
                        ELSE fallbacks
        /\ fallback_count' = Min(fallback_count + cleaned.fetched.fallback_runs, MaxCounted)
  /\ phase' = "done"
  /\ UNCHANGED remembered

api_get_401k_data ==
  /\ phase = "idle"
  /\ \E up \in Upstream : Handle(up)

\* GET /
read_root ==
  /\ phase = "idle"
  /\ cur' = [NoRequest EXCEPT
               !.route = "/",
               !.response = [raised |-> "none", status_code |-> StatusOK,
                             content |-> [Hello |-> "Welcome to the 401k Data API. Use /get-401k-data to fetch the data."]]]
  /\ phase' = "done"
  /\ UNCHANGED << rng, fallbacks, fallback_count, remembered >>

\* The response is sent; the request's locals are released.
SendResponse ==
  /\ phase = "done"
  /\ phase' = "idle"
  /\ cur' = NoRequest
  /\ UNCHANGED << rng, fallbacks, fallback_count, remembered >>

Next == api_get_401k_data \/ read_root \/ SendResponse

Spec == Init /\ [][Next]_vars

\* Requests compared pairwise: one handled request is remembered, with its
\* upstream outcome and response, while later requests are handled.
PairRequest ==
  /\ phase = "idle"
  /\ \E up \in PairUpstream : Handle(up)

Remember ==
  /\ phase = "done"
  /\ cur.route = "/get-401k-data"
  /\ remembered = {}
  /\ remembered' = { [up |-> cur.up, response |-> cur.response] }
  /\ UNCHANGED << phase, rng, cur, fallbacks, fallback_count >>

NextPair == PairRequest \/ Remember \/ SendResponse

SpecPair == Init /\ [][NextPair]_vars

\* ----------------------------------------------------------- properties
\* A request to GET /get-401k-data has been handled and its response is ready.
Handled == phase = "done" /\ cur.route = "/get-401k-data"

\* The handled request answered with status 200.
Success == Handled /\ cur.response.raised = "none" /\ cur.response.status_code = StatusOK

\* The cells of frame df that are missing.
MissingCells(df) ==
  { << i, j >> \in (1..NRows(df)) \X (1..Len(df.columns)) : IsNA(df.values[i][j]) }

\* C1: in every success response no row-object of data holds a missing value
\* and no row-object has the key VFSVX.
C1_NoMissingNoDropped ==
  Success =>
    \A i \in 1..Len(cur.response.content.data) :
      LET row == cur.response.content.data[i]
      IN /\ DroppedColumn \notin DOMAIN row
         /\ \A c \in DOMAIN row : ~IsNA(row[c])

\* A success response with rows, from a raw table that had VFSVX and a
\* missing value on or after the cutoff.
C1_Witness ==
  /\ Success
  /\ Len(cur.response.content.data) >= 1
  /\ DroppedColumn \in Range(cur.data.columns)
  /\ MissingCells(cur.most_recent) # {}

C3_DateFilter ==
  Handled =>
    LET d == cur.data
        m == cur.most_recent
    IN /\ Range(m.index) = { x \in Range(d.index) : x >= Cutoff }
       /\ NRows(m) = Cardinality({ i \in 1..NRows(d) : d.index[i] >= Cutoff })
       /\ \A i \in 1..NRows(m) : m.values[i] = d.values[IndexOf(d.index, m.index[i])]
       /\ \A i \in 1..(NRows(m) - 1) : m.index[i] < m.index[i + 1]
       /\ m.columns = d.columns
       /\ \A i \in 1..NRows(cur.clean_df) : cur.clean_df.index[i] >= Cutoff

\* The raw table has a row before the cutoff and a row dated at the cutoff,
\* and the cutoff row reaches the cleaned table.
C3_Witness ==
  /\ Success
  /\ (Cutoff - 1) \in Range(cur.data.index)
  /\ Cutoff \in Range(cur.clean_df.index)

\* The records of frame df, column for column, without the dropped column.
RecordsOf(df) ==
  [ i \in 1..NRows(df) |->
      [ c \in Range(df.columns) \ { DroppedColumn } |-> df.values[i][IndexOf(df.columns, c)] ] ]

\* C4: when the upstream call raises, the request ends with status 200 and a
\* success envelope whose data is the synthetic table's rows.
C4_FallbackSucceeds ==
  (Handled /\ cur.up.kind # "ok") =>
    /\ cur.response.raised = "none"
    /\ cur.response.status_code = StatusOK
    /\ cur.response.content.status = "success"
    /\ cur.fetched.fallback_runs = 1
    /\ cur.data \in fallbacks
    /\ cur.response.content.data = RecordsOf(cur.data)
    /\ Len(cur.response.content.data) = Len(DummyDates)

\* The upstream call raised and the request was answered.
C4_Witness ==
  /\ Handled
  /\ cur.up.kind = "raise"
  /\ cur.response.status_code = StatusOK
  /\ Len(cur.response.content.data) >= 1

\* C5: every request ends either with status 200 and the full success
\* envelope or with status 500 and the error envelope without data; no
\* exception leaves the endpoint.
C5_TwoOutcomes ==
  Handled =>
    /\ cur.response.raised = "none"
    /\ \/ /\ cur.response.status_code = StatusOK
          /\ DOMAIN cur.response.content = { "status", "message", "data", "row_count" }
          /\ cur.response.content.status = "success"
       \/ /\ cur.response.status_code = StatusError
          /\ DOMAIN cur.response.content = { "status", "message" }
          /\ cur.response.content.status = "error"

\* get_cleaned_data returned a table and rendering it failed: the request
\* ended with the error envelope.
C5_Witness ==
  /\ Handled
  /\ cur.exc = "none"
  /\ NRows(cur.clean_df) >= 1
  /\ cur.response.status_code = StatusError

\* C6: when the table handed to the cleaner has no VFSVX column the column
\* removal raises and the request ends with the 500 error envelope.
C6_ColumnNotFound ==
  (Handled /\ cur.fetched.exc = "none" /\ DroppedColumn \notin Range(cur.data.columns)) =>
    /\ cur.exc = "KeyError"
    /\ cur.response.status_code = StatusError
    /\ cur.response.content.status = "error"
    /\ "data" \notin DOMAIN cur.response.content

\* A complete table with rows on or after the cutoff and no VFSVX column.
C6_Witness ==
  /\ Handled
  /\ cur.up.kind = "ok"
  /\ DroppedColumn \notin Range(cur.data.columns)
  /\ Len(cur.data.columns) >= 1
  /\ NRows(cur.most_recent) >= 1
  /\ MissingCells(cur.most_recent) = {}
  /\ cur.response.status_code = StatusError

\* C7: any two fallback invocations produce the same table, whatever ran
\* before them.
C7_FallbackDeterministic ==
  /\ Cardinality(fallbacks) <= 1
  /\ (Handled /\ cur.fetched.fallback_runs > 0) => fallbacks = { cur.data }

\* The fallback has run twice or more, the last time in this request.
C7_Witness ==
  /\ Handled
  /\ cur.fetched.fallback_runs = 1
  /\ fallback_count >= 2

\* C8: the producer step raises nothing; it calls the upstream source once
\* and binds the raw table to the upstream table, or, when the call or its
\* subscript raised, to the synthetic table with a column for every requested
\* identifier, generated by a single run of the fallback.
C8_ProducerTotal ==
  Handled =>
    /\ cur.fetched.exc = "none"
    /\ cur.fetched.upstream_calls = 1
    /\ cur.fetched.fallback_runs <= 1
    /\ cur.up.kind = "ok" => (cur.data = cur.up.close /\ cur.fetched.fallback_runs = 0)
    /\ cur.up.kind # "ok" =>
         /\ cur.fetched.fallback_runs = 1
         /\ cur.data.columns = Requested
         /\ cur.data.index = DummyDates
         /\ \A i \in 1..NRows(cur.data) : \A j \in 1..Len(Requested) :
              IsFinite(cur.data.values[i][j])

\* The upstream call returned a frame without close prices and the fallback
\* supplied the table.
C8_Witness ==
  /\ Handled
  /\ cur.up.kind = "noclose"
  /\ cur.fetched.fallback_runs = 1
  /\ NRows(cur.data) >= 1

\* The rows of frame df with a missing value in a column other than VFSVX.
IncompleteRows(df) ==
  { i \in 1..NRows(df) :
      \E j \in 1..Len(df.columns) : df.columns[j] # DroppedColumn /\ IsNA(df.values[i][j]) }

C10_Independent ==
  \A r \in remembered :
    (Handled /\ cur.up = r.up) => cur.response = r.response

\* The upstream call raised for a remembered request and for a later one.
C10_Witness ==
  /\ Handled
  /\ cur.up.kind = "raise"
  /\ fallback_count >= 2
  /\ \E r \in remembered : r.up = cur.up

====
